---- MODULE Spec2Model ----
(***************************************************************************)
(* State-machine model of the snake game of src/main.c: the snake state    *)
(* (init_snake, move_snake, next_food_pos), the key handlers and the       *)
(* fixed-timestep game loop of main, from init_snake until the snake dies.  *)
(* Rendering, audio, SDL_QUIT and window events are outside the model.     *)
(* WrapSpec, UniformSpec and FoodSpec follow one call of                   *)
(* move_in_bounded_direction, uniform_u32 and next_food_pos.               *)
(*                                                                         *)
(* The Body is a sequence of cells in tail-to-head order: body[1] is       *)
(* snake->tail and body[Len(body)] is snake->head, the order in which the  *)
(* code walks the list (walk = snake->tail; walk; walk = walk->next).      *)
(***************************************************************************)
EXTENDS Integers, Sequences, FiniteSets, TLC

(***************************************************************************)
(* Program constants                                                       *)
(***************************************************************************)
GRID_WIDTH == 20

GRID_HEIGHT == 20

INITIAL_SNAKE_LEN == 10

\* RAND_MAX of the C library the program is built against (glibc: 2^31 - 1).
RAND_MAX == 2147483647

\* f64 target_ms = 50, and the literal 50 subtracted from accumulated_ms.
target_ms == 50

(***************************************************************************)
(* Bounds of the model                                                     *)
(***************************************************************************)
\* rand() returns 0 or one of the RawHigh + 1 largest values of [0, RAND_MAX].
RawHigh == 8

\* move_snake is called at most MaxSteps times.
MaxSteps == 3

\* accumulated_ms never exceeds MaxAcc (milliseconds, whole numbers).
MaxAcc == 150

\* the elapsed times (ms) one loop iteration can measure
Deltas == {0, 50, 100}

VARIABLES
    body,                          \* snake->tail ... snake->head
    direction,                     \* snake->direction
    food_pos,                      \* snake->food_pos
    score,                         \* snake->score
    died,                          \* snake->died
    paused,                        \* main: bool paused
    accumulated_ms,                \* main: f64 accumulated_ms
    moved_since_last_dir_change,   \* main: the direction-change gate
    pc,                            \* position of main in its loop
    steps,                         \* history: number of move_snake calls
    changes,                       \* history: direction requests applied since the last move_snake
    outcome,                       \* history: what the last snake operation did
    probe                          \* the single call under check in the function-level specifications

vars == <<body, direction, food_pos, score, died, paused,
          accumulated_ms, moved_since_last_dir_change, pc, steps, changes, outcome,
          probe>>

snake_vars == <<body, direction, food_pos, score, died>>

(***************************************************************************)
(* uniform_u32                                                             *)
(***************************************************************************)
\* the raw values rand() returns in the model
RawSamples == {0} \cup { RAND_MAX - k : k \in 0 .. RawHigh }

\* the loop condition of uniform_u32 over a raw range [0, rand_max]
rand_rejected(v, bound, rand_max) == v >= rand_max - (rand_max % bound)

\* the loop condition of uniform_u32: raw value v is thrown away and resampled
Resampled(v, bound) == rand_rejected(v, bound, RAND_MAX)

\* the values uniform_u32(bound) can return: the first raw value that is not
\* resampled, reduced modulo bound
uniform_u32(bound) == { v % bound : v \in { w \in RawSamples : ~Resampled(w, bound) } }

(***************************************************************************)
(* Cells and directions                                                    *)
(***************************************************************************)
bound_x == GRID_WIDTH

bound_y == GRID_HEIGHT

DIRECTION_UP == [x |-> 0, y |-> -1]

DIRECTION_DOWN == [x |-> 0, y |-> 1]

DIRECTION_LEFT == [x |-> -1, y |-> 0]

DIRECTION_RIGHT == [x |-> 1, y |-> 0]

directions == <<DIRECTION_UP, DIRECTION_DOWN, DIRECTION_LEFT, DIRECTION_RIGHT>>

\* an axis step without the two wrap corrections
bounded_axis_NoWrap(c, d, b) == c + d

\* one axis of move_in_bounded_direction: c and d are s32, b is u32.  The
\* comparison n >= b is unsigned, but it is only reached with n >= 0, and for
\* n in -b .. -1 the unsigned sum b + n read back as s32 is the integer b + n,
\* so the arithmetic is the integers' for every coordinate the grid admits.
bounded_axis(c, d, b) ==
    LET n == c + d
    IN  IF n < 0 THEN b + n
        ELSE IF n >= b THEN n - b
        ELSE n

move_in_bounded_direction(pos, dir, bx, by) ==
    [x |-> bounded_axis(pos.x, dir.x, bx), y |-> bounded_axis(pos.y, dir.y, by)]

snake_head == body[Len(body)]

\* a collision walk that looks at the head piece only
InBody_HeadOnly(c, b) == b[Len(b)].x = c.x /\ b[Len(b)].y = c.y

\* a collision walk that starts at the piece after the tail
InBody_SkipsTail(c, b) == \E i \in 2 .. Len(b) : b[i].x = c.x /\ b[i].y = c.y

\* the walk from snake->tail comparing each piece with c (VEC2S_EQUAL)
InBody(c, b) == \E i \in 1 .. Len(b) : b[i].x = c.x /\ b[i].y = c.y

(***************************************************************************)
(* init_snake                                                              *)
(***************************************************************************)
\* a tail laid out in the direction of travel
tail_direction_Same(dir) == dir

tail_direction(dir) ==
    IF dir = DIRECTION_UP THEN DIRECTION_DOWN
    ELSE IF dir = DIRECTION_DOWN THEN DIRECTION_UP
    ELSE IF dir = DIRECTION_LEFT THEN DIRECTION_RIGHT
    ELSE DIRECTION_LEFT

\* the loop of init_snake after i pieces: the first piece is the head, every
\* later piece becomes the new tail, one cell further in tail direction td
RECURSIVE init_pieces(_, _, _)
init_pieces(first, td, i) ==
    IF i <= 1 THEN <<first>>
    ELSE LET rest == init_pieces(first, td, i - 1)
         IN  <<move_in_bounded_direction(rest[1], td, bound_x, bound_y)>> \o rest

init_snake ==
    \E d \in uniform_u32(4), hx \in uniform_u32(bound_x), hy \in uniform_u32(bound_y),
       fx \in uniform_u32(bound_x), fy \in uniform_u32(bound_y) :
        /\ direction = directions[d + 1]
        /\ body = init_pieces([x |-> hx, y |-> hy], tail_direction(directions[d + 1]),
                              INITIAL_SNAKE_LEN)
        /\ food_pos = [x |-> fx, y |-> fy]
        /\ score = 0
        /\ died = FALSE

Init ==
    /\ init_snake
    /\ paused = FALSE
    /\ accumulated_ms = 0
    /\ moved_since_last_dir_change = TRUE
    /\ pc = "poll"
    /\ steps = 0
    /\ changes = 0
    /\ outcome = "init"
    /\ probe = [fn |-> "none"]

(***************************************************************************)
(* next_food_pos and move_snake                                            *)
(***************************************************************************)
\* the cells next_food_pos can return for body b: a sampled cell is returned
\* when the walk over b finds no equal piece; with no such cell the do-while
\* loop never ends and the set is empty
next_food_pos(b) ==
    { c \in { [x |-> cx, y |-> cy] : cx \in uniform_u32(bound_x), cy \in uniform_u32(bound_y) } :
        ~InBody(c, b) }

new_piece_pos == move_in_bounded_direction(snake_head, direction, bound_x, bound_y)

\* move_snake removing the tail piece after eating too
move_snake_EatPopsTail ==
    IF InBody(new_piece_pos, body)
    THEN /\ died' = TRUE
         /\ outcome' = "died"
         /\ UNCHANGED <<body, food_pos, score>>
    ELSE LET pushed == Append(body, new_piece_pos)
         IN  IF new_piece_pos.x = food_pos.x /\ new_piece_pos.y = food_pos.y
             THEN /\ score' = score + 1
                  /\ food_pos' \in next_food_pos(pushed)
                  /\ body' = Tail(pushed)
                  /\ outcome' = "ate"
                  /\ UNCHANGED died
             ELSE /\ body' = Tail(pushed)
                  /\ outcome' = "moved"
                  /\ UNCHANGED <<food_pos, score, died>>

\* move_snake removing the piece after the tail on a move without food
move_snake_PopsSecond ==
    IF InBody(new_piece_pos, body)
    THEN /\ died' = TRUE
         /\ outcome' = "died"
         /\ UNCHANGED <<body, food_pos, score>>
    ELSE LET pushed == Append(body, new_piece_pos)
         IN  IF new_piece_pos.x = food_pos.x /\ new_piece_pos.y = food_pos.y
             THEN /\ score' = score + 1
                  /\ food_pos' \in next_food_pos(pushed)
                  /\ body' = pushed
                  /\ outcome' = "ate"
                  /\ UNCHANGED died
             ELSE /\ body' = <<pushed[1]>> \o Tail(Tail(pushed))
                  /\ outcome' = "moved"
                  /\ UNCHANGED <<food_pos, score, died>>

\* move_snake linking the new piece in before the collision walk
move_snake_DeathKeepsHead ==
    IF InBody(new_piece_pos, body)
    THEN /\ died' = TRUE
         /\ outcome' = "died"
         /\ body' = Append(body, new_piece_pos)
         /\ UNCHANGED <<food_pos, score>>
    ELSE LET pushed == Append(body, new_piece_pos)
         IN  IF new_piece_pos.x = food_pos.x /\ new_piece_pos.y = food_pos.y
             THEN /\ score' = score + 1
                  /\ food_pos' \in next_food_pos(pushed)
                  /\ body' = pushed
                  /\ outcome' = "ate"
                  /\ UNCHANGED died
             ELSE /\ body' = Tail(pushed)
                  /\ outcome' = "moved"
                  /\ UNCHANGED <<food_pos, score, died>>

move_snake ==
    IF InBody(new_piece_pos, body)
    THEN /\ died' = TRUE
         /\ outcome' = "died"
         /\ UNCHANGED <<body, food_pos, score>>
    ELSE LET pushed == Append(body, new_piece_pos)
         IN  IF new_piece_pos.x = food_pos.x /\ new_piece_pos.y = food_pos.y
             THEN /\ score' = score + 1
                  /\ food_pos' \in next_food_pos(pushed)
                  /\ body' = pushed
                  /\ outcome' = "ate"
                  /\ UNCHANGED died
             ELSE /\ body' = Tail(pushed)
                  /\ outcome' = "moved"
                  /\ UNCHANGED <<food_pos, score, died>>

(***************************************************************************)
(* main: the event handlers                                                *)
(***************************************************************************)
KeySpace ==
    /\ pc = "poll"
    /\ paused' = ~paused
    /\ UNCHANGED <<snake_vars, accumulated_ms, moved_since_last_dir_change,
                   pc, steps, changes, outcome, probe>>

\* an arrow-key case that does not test the gate
ArrowKey_NoGate(allowed, dir) ==
    /\ pc = "poll"
    /\ allowed
    /\ moved_since_last_dir_change' = FALSE
    /\ direction' = dir
    /\ changes' = changes + 1
    /\ UNCHANGED <<body, food_pos, score, died, paused, accumulated_ms,
                   pc, steps, outcome, probe>>

\* the body shared by the four arrow-key cases: allowed is the case's own test
\* of the current direction
ArrowKey(allowed, dir) ==
    /\ pc = "poll"
    /\ moved_since_last_dir_change /\ allowed
    /\ moved_since_last_dir_change' = FALSE
    /\ direction' = dir
    /\ changes' = changes + 1
    /\ UNCHANGED <<body, food_pos, score, died, paused, accumulated_ms,
                   pc, steps, outcome, probe>>

KeyUp == ArrowKey(direction.y # 1, DIRECTION_UP)

KeyDown == ArrowKey(direction.y # -1, DIRECTION_DOWN)

KeyLeft == ArrowKey(direction.x # 1, DIRECTION_LEFT)

KeyRight == ArrowKey(direction.x # -1, DIRECTION_RIGHT)

(***************************************************************************)
(* main: the pacer                                                         *)
(***************************************************************************)
\* the pacer test with >= for >
ShouldStep_AtInterval == ~paused /\ accumulated_ms >= target_ms

\* if (!paused && accumulated_ms > target_ms)
ShouldStep == ~paused /\ accumulated_ms > target_ms

\* a pacer that drops the backlog when it steps
PaceStep_DropsBacklog ==
    /\ pc = "poll"
    /\ ShouldStep
    /\ steps < MaxSteps
    /\ accumulated_ms' = accumulated_ms % 50
    /\ moved_since_last_dir_change' = TRUE
    /\ move_snake
    /\ steps' = steps + 1
    /\ changes' = 0
    /\ pc' = IF died' THEN "done" ELSE "time"
    /\ UNCHANGED <<direction, paused, probe>>

\* a pacer that goes on with the loop after the snake died
PaceStep_NoReturnOnDeath ==
    /\ pc = "poll"
    /\ ShouldStep
    /\ steps < MaxSteps
    /\ accumulated_ms' = accumulated_ms - 50
    /\ moved_since_last_dir_change' = TRUE
    /\ move_snake
    /\ steps' = steps + 1
    /\ changes' = 0
    /\ pc' = "time"
    /\ UNCHANGED <<direction, paused, probe>>

PaceStep ==
    /\ pc = "poll"
    /\ ShouldStep
    /\ steps < MaxSteps
    /\ accumulated_ms' = accumulated_ms - 50
    /\ moved_since_last_dir_change' = TRUE
    /\ move_snake
    /\ steps' = steps + 1
    /\ changes' = 0
    /\ pc' = IF died' THEN "done" ELSE "time"
    /\ UNCHANGED <<direction, paused, probe>>

\* a pacer that clears the accumulator when no step is due
PaceIdle_LosesTime ==
    /\ pc = "poll"
    /\ ~ShouldStep
    /\ pc' = "time"
    /\ accumulated_ms' = 0
    /\ UNCHANGED <<snake_vars, paused,
                   moved_since_last_dir_change, steps, changes, outcome, probe>>

PaceIdle ==
    /\ pc = "poll"
    /\ ~ShouldStep
    /\ pc' = "time"
    /\ UNCHANGED <<snake_vars, paused, accumulated_ms,
                   moved_since_last_dir_change, steps, changes, outcome, probe>>

\* a loop end that adds delta_time while paused too
Accumulate_WhilePaused(delta) ==
    /\ pc = "time"
    /\ accumulated_ms' = accumulated_ms + delta
    /\ accumulated_ms' <= MaxAcc
    /\ pc' = "poll"
    /\ UNCHANGED <<snake_vars, paused, moved_since_last_dir_change,
                   steps, changes, outcome, probe>>

\* the end of the loop body: delta_time is added unless paused, then the next iteration
Accumulate(delta) ==
    /\ pc = "time"
    /\ accumulated_ms' = IF ~paused THEN accumulated_ms + delta ELSE accumulated_ms
    /\ accumulated_ms' <= MaxAcc
    /\ pc' = "poll"
    /\ UNCHANGED <<snake_vars, paused, moved_since_last_dir_change,
                   steps, changes, outcome, probe>>

Elapse == \E delta \in Deltas : Accumulate(delta)

Next ==
    \/ KeySpace
    \/ KeyUp
    \/ KeyDown
    \/ KeyLeft
    \/ KeyRight
    \/ PaceStep
    \/ PaceIdle
    \/ Elapse

Spec == Init /\ [][Next]_vars

(***************************************************************************)
(* The game with the pacer left running and time passing                   *)
(***************************************************************************)
\* positive elapsed times (ms): half an interval, one interval, two intervals
LiveDeltas == {25, 50, 100}

LiveElapse == \E delta \in LiveDeltas : Accumulate(delta)

\* no key is pressed: the pacer stays RUNNING, and the arrow-key handlers
\* assign neither accumulated_ms nor paused
LiveNext ==
    \/ PaceStep
    \/ PaceIdle
    \/ LiveElapse

\* main's loop keeps running: once the pending events are polled it
\* evaluates the pacer, and then it measures the elapsed time
LiveSpec ==
    /\ Init
    /\ [][LiveNext]_vars
    /\ WF_vars(PaceStep)
    /\ WF_vars(PaceIdle)
    /\ WF_vars(LiveElapse)

(***************************************************************************)
(* The game continued from a coiled snake                                  *)
(***************************************************************************)
\* the Body left behind by a head that starts at cell start and makes the
\* moves dirs, one move_in_bounded_direction each
RECURSIVE path_from(_, _)
path_from(start, dirs) ==
    IF dirs = <<>> THEN <<start>>
    ELSE <<start>> \o path_from(move_in_bounded_direction(start, dirs[1], bound_x, bound_y),
                                Tail(dirs))

\* nine moves of a snake that has not eaten: four to the right, one down, four
\* to the left; its INITIAL_SNAKE_LEN pieces then form a ring and the head
\* lies right below the tail
coil_moves ==
    <<DIRECTION_RIGHT, DIRECTION_RIGHT, DIRECTION_RIGHT, DIRECTION_RIGHT, DIRECTION_DOWN,
      DIRECTION_LEFT, DIRECTION_LEFT, DIRECTION_LEFT, DIRECTION_LEFT>>

\* main right after the move_snake call that closed the ring: the food is a
\* sampled cell the snake has not entered, the gate is open, the loop is
\* about to add delta_time
CoilInit ==
    \E tx \in uniform_u32(bound_x), ty \in uniform_u32(bound_y), acc \in {0, 50, 100} :
        /\ body = path_from([x |-> tx, y |-> ty], coil_moves)
        /\ direction = DIRECTION_LEFT
        /\ food_pos \in next_food_pos(body)
        /\ score = 0
        /\ died = FALSE
        /\ paused = FALSE
        /\ accumulated_ms = acc
        /\ moved_since_last_dir_change = TRUE
        /\ pc = "time"
        /\ steps = 0
        /\ changes = 0
        /\ outcome = "moved"
        /\ probe = [fn |-> "none"]

CoilSpec == CoilInit /\ [][Next]_vars

(***************************************************************************)
(* One call of a function, outside a game                                  *)
(***************************************************************************)
game_vars == <<body, direction, food_pos, score, died, paused,
               accumulated_ms, moved_since_last_dir_change, pc, steps, changes, outcome>>

\* no snake has been initialised and main's loop is not running
NoGame ==
    /\ body = <<>>
    /\ direction = DIRECTION_UP
    /\ food_pos = [x |-> 0, y |-> 0]
    /\ score = 0
    /\ died = FALSE
    /\ paused = FALSE
    /\ accumulated_ms = 0
    /\ moved_since_last_dir_change = TRUE
    /\ pc = "none"
    /\ steps = 0
    /\ changes = 0
    /\ outcome = "none"

(***************************************************************************)
(* move_in_bounded_direction on machine words                              *)
(***************************************************************************)
\* the number of bits of s32 and u32, scaled down from 32
WordBits == 5

\* the largest s32 (INT32_MAX)
S_MAX == 2 ^ (WordBits - 1) - 1

\* the number of u32 values (UINT32_MAX + 1)
U_MOD == 2 ^ WordBits

\* conversion of an integer to u32
to_u32(n) == n % U_MOD

\* conversion of an integer to s32 (two's complement)
to_s32(n) == IF n % U_MOD > S_MAX THEN (n % U_MOD) - U_MOD ELSE n % U_MOD

\* one axis of move_in_bounded_direction with its types: c and d are s32 and
\* their sum is an s32 sum, undefined when it overflows (any s32 can come
\* out); b is u32, so bound + new_pos, new_pos >= bound and new_pos - bound
\* are u32 operations whose result is stored back into the s32 new_pos
bounded_axis_s32(c, d, b) ==
    LET n == c + d
    IN  IF n > S_MAX \/ n < -S_MAX - 1 THEN (-S_MAX - 1) .. S_MAX
        ELSE IF n < 0 THEN { to_s32(to_u32(b + to_u32(n))) }
        ELSE IF to_u32(n) >= b THEN { to_s32(to_u32(to_u32(n) - b)) }
        ELSE { n }

\* a call with a bound b >= 1, a coordinate in [0, b) and a unit step
WrapInit ==
    /\ NoGame
    /\ \E b \in 1 .. (U_MOD - 1), d \in {-1, 0, 1} :
         \E c \in { k \in 0 .. S_MAX : k < b } :
            probe = [fn |-> "move_in_bounded_direction", state |-> "called",
                     c |-> c, d |-> d, b |-> b, result |-> c]

WrapReturn ==
    /\ probe.state = "called"
    /\ \E r \in bounded_axis_s32(probe.c, probe.d, probe.b) :
          probe' = [probe EXCEPT !.state = "returned", !.result = r]
    /\ UNCHANGED game_vars

WrapNext == WrapReturn

WrapSpec == WrapInit /\ [][WrapNext]_vars

(***************************************************************************)
(* uniform_u32, one rand() call at a time                                  *)
(***************************************************************************)
\* RAND_MAX in the scaled words: the largest s32, as RAND_MAX is the largest
\* 32-bit int
RAND_MAX_W == S_MAX

\* the raw values rand() can return
rand_range == 0 .. RAND_MAX_W

\* a call with a positive u32 bound, after u32 v = rand()
UniformInit ==
    /\ NoGame
    /\ \E bound \in 1 .. (U_MOD - 1), v \in rand_range :
          probe = [fn |-> "uniform_u32", state |-> "loop",
                   bound |-> bound, v |-> v, result |-> 0]

\* the loop body: v = rand()
UniformResample ==
    /\ probe.state = "loop"
    /\ rand_rejected(probe.v, probe.bound, RAND_MAX_W)
    /\ \E w \in rand_range : probe' = [probe EXCEPT !.v = w]
    /\ UNCHANGED game_vars

\* return v % bound
UniformReturn ==
    /\ probe.state = "loop"
    /\ ~rand_rejected(probe.v, probe.bound, RAND_MAX_W)
    /\ probe' = [probe EXCEPT !.state = "returned", !.result = probe.v % probe.bound]
    /\ UNCHANGED game_vars

UniformNext ==
    \/ UniformResample
    \/ UniformReturn

UniformSpec == UniformInit /\ [][UniformNext]_vars

(***************************************************************************)
(* next_food_pos, one loop iteration at a time, on a nearly full grid      *)
(***************************************************************************)
\* snake->bound_x and snake->bound_y of the snake of these calls, scaled down
\* from GRID_WIDTH and GRID_HEIGHT
FoodSide == 6

\* the Bodies of the calls leave at most FoodFree cells of the grid free
FoodFree == 2

\* rand() returns one of the bound smallest values of [0, RAND_MAX], so that
\* uniform_u32(bound) can return every value of [0, bound)
uniform_u32_low(bound) ==
    { v % bound : v \in { w \in 0 .. (bound - 1) : ~Resampled(w, bound) } }

\* the i-th cell (from 0) on the way of a snake that sweeps a grid bx wide
\* row by row, to the right on even rows and to the left on odd rows
sweep_cell(i, bx) ==
    LET row == i \div bx
        col == i % bx
    IN  [x |-> IF row % 2 = 0 THEN col ELSE bx - 1 - col, y |-> row]

\* the Body of n pieces of that snake, tail first
sweep_body(n, bx) == [i \in 1 .. n |-> sweep_cell(i - 1, bx)]

\* move_snake has pushed the new head on the food cell and calls
\* next_food_pos with a Body that leaves at most FoodFree cells free
FoodInit ==
    /\ NoGame
    /\ \E free \in 0 .. FoodFree :
          probe = [fn |-> "next_food_pos", state |-> "loop",
                   bound_x |-> FoodSide, bound_y |-> FoodSide,
                   body |-> sweep_body(FoodSide * FoodSide - free, FoodSide),
                   result |-> [x |-> 0, y |-> 0], pos_taken |-> FALSE]

\* one iteration that samples a cell of the Body: pos_taken, the loop repeats
FoodRetry ==
    /\ probe.state = "loop"
    /\ \E x \in uniform_u32_low(probe.bound_x), y \in uniform_u32_low(probe.bound_y) :
          /\ InBody([x |-> x, y |-> y], probe.body)
          /\ probe' = [probe EXCEPT !.result = [x |-> x, y |-> y], !.pos_taken = TRUE]
    /\ UNCHANGED game_vars

\* one iteration that samples a cell no piece is on: the loop ends and
\* next_food_pos returns the cell to move_snake
FoodReturn ==
    /\ probe.state = "loop"
    /\ \E x \in uniform_u32_low(probe.bound_x), y \in uniform_u32_low(probe.bound_y) :
          /\ ~InBody([x |-> x, y |-> y], probe.body)
          /\ probe' = [probe EXCEPT !.result = [x |-> x, y |-> y], !.pos_taken = FALSE,
                                    !.state = "returned"]
    /\ UNCHANGED game_vars

FoodNext ==
    \/ FoodRetry
    \/ FoodReturn

\* fair sampling: while a free cell can be sampled, one eventually is
FoodSpec ==
    /\ FoodInit
    /\ [][FoodNext]_vars
    /\ WF_vars(FoodReturn)

(***************************************************************************)
(* Properties                                                              *)
(***************************************************************************)
InGrid(c) == c.x >= 0 /\ c.x < bound_x /\ c.y >= 0 /\ c.y < bound_y

Reverse(dir) == [x |-> -dir.x, y |-> -dir.y]

\* a step of the model in which move_snake is called
Stepped == steps' = steps + 1

\* a step of the model that is one pacer evaluation
Evaluated == pc = "poll" /\ pc' # "poll"

\* C1: in every reachable state, the state in which died is true included,
\* the cells of the Body are pairwise distinct.
C1_BodyDistinct ==
    Cardinality({ body[i] : i \in 1 .. Len(body) }) = Len(body)

\* the snake died after turning back onto itself
C1_Witness == died /\ outcome = "died" /\ steps = 3

\* C2: immediately after every food placement (by init_snake and by a
\* move_snake that ate), the food cell is not a cell of the Body.  The Body
\* and the food are the same from a placement until the next move_snake.
C2_FoodPlacedOutsideBody ==
    outcome \in {"init", "ate"} => ~InBody(food_pos, body)

\* C3: a move_snake whose new head is a cell of the Body sets died and leaves
\* the Body, the score, the food cell and the direction as they were.
C3_DeathLeavesSnake ==
    [][(Stepped /\ InBody(new_piece_pos, body))
         => (died' /\ body' = body /\ score' = score /\ food_pos' = food_pos
             /\ direction' = direction)]_vars

C3_Witness == outcome = "died" /\ Len(body) = INITIAL_SNAKE_LEN /\ pc = "done"

\* C4: after a move_snake the Body is as long as before, except when the new
\* head equals the food cell, and then it is exactly one longer.
C4_LengthAfterStep ==
    [][Stepped => Len(body') = Len(body) + (IF new_piece_pos = food_pos THEN 1 ELSE 0)]_vars

\* C5: between two consecutive move_snake calls (and between init and the
\* first) at most one direction request is applied, also while paused; the
\* direction never becomes its own reverse; after an applied request the
\* direction stays as it is until the next move_snake.
C5_Throttle ==
    [][/\ changes' <= 1
       /\ (direction' # direction =>
             /\ moved_since_last_dir_change
             /\ changes = 0 /\ changes' = 1
             /\ direction' # Reverse(direction))
       /\ (changes >= 1 /\ ~Stepped => direction' = direction)]_vars

\* a request was applied during a pause
C5_Witness == changes = 1 /\ ~moved_since_last_dir_change /\ paused /\ steps >= 1

\* C6: one pacer evaluation calls move_snake exactly once when not paused and
\* more than 50 ms have accumulated, and then it takes exactly one interval
\* off the accumulator and opens the gate; otherwise it calls it zero times.
\* No step of the program calls move_snake more than once.
C6_OneStepPerEvaluation ==
    [][/\ steps' \in {steps, steps + 1}
       /\ (Stepped => Evaluated)
       /\ (Evaluated =>
             IF ~paused /\ accumulated_ms > 50
             THEN /\ Stepped
                  /\ accumulated_ms' = accumulated_ms - 50
                  /\ moved_since_last_dir_change'
             ELSE /\ ~Stepped
                  /\ accumulated_ms' = accumulated_ms
                  /\ moved_since_last_dir_change' = moved_since_last_dir_change)]_vars

\* an evaluation has stepped with exactly two intervals accumulated, after a direction request
C6_Witness == pc = "time" /\ steps = 2 /\ accumulated_ms = 50 /\ moved_since_last_dir_change

\* C7 as stated: a step taken with more than one interval of backlog leaves
\* no surplus interval in the accumulator (no further step is due).
C7_BacklogDropped ==
    [][(Stepped /\ accumulated_ms > 2 * 50) => accumulated_ms' <= 50]_vars

\* C7 amended: a step taken with more than one interval of backlog takes
\* exactly one interval off; the surplus stays in the accumulator and is more
\* than an interval, so the next evaluation while running steps again.
C7_BacklogQueued ==
    [][(Stepped /\ accumulated_ms > 2 * 50)
         => (accumulated_ms' = accumulated_ms - 50 /\ accumulated_ms' > 50)]_vars

\* the second of two steps paid from one backlog of 150 ms
C7_Witness == pc = "time" /\ steps >= 1 /\ accumulated_ms = 100 /\ ~paused

\* C8: while paused no step of the program calls move_snake or changes the
\* Body, the food cell, the score, died or the accumulator.
C8_PausedFrame ==
    [][paused => (~Stepped /\ UNCHANGED <<body, food_pos, score, died, accumulated_ms>>)]_vars

\* an evaluation and an elapsed time went by paused with a step due
C8_Witness == paused /\ pc = "time" /\ accumulated_ms > 50 /\ steps >= 1

\* C9: died only changes from false to true; once it is true main has
\* returned, so move_snake is not called again and nothing changes the Body,
\* the score, the food cell or died.
C9_DeathIsTerminal ==
    /\ [](died => pc = "done")
    /\ [][died => (died' /\ ~Stepped /\ UNCHANGED <<body, score, food_pos>>)]_vars

C9_Witness == died /\ pc = "done" /\ score >= 1

\* C10: every Body cell and the food cell lie inside the grid, so the pixel
\* index y * bound_x + x is an index of the bound_x * bound_y surface.
C10_CellsInGrid ==
    /\ \A i \in 1 .. Len(body) :
         /\ InGrid(body[i])
         /\ body[i].y * bound_x + body[i].x \in 0 .. (bound_x * bound_y - 1)
    /\ InGrid(food_pos)
    /\ food_pos.y * bound_x + food_pos.x \in 0 .. (bound_x * bound_y - 1)

\* the head has just crossed the left edge and come back in at the right
C10_Witness ==
    /\ outcome = "moved"
    /\ snake_head.x = bound_x - 1
    /\ body[Len(body) - 1].x = 0
    /\ direction = DIRECTION_LEFT

\* C13: a move_snake whose new head is the food cell and not a Body cell
\* keeps every old cell in place and in order, appends the new head, removes
\* no tail cell, adds exactly 1 to the score and places the food on a cell
\* outside the resulting Body.
C13_EatGrows ==
    [][(Stepped /\ new_piece_pos = food_pos /\ ~InBody(new_piece_pos, body))
         => /\ Len(body') = Len(body) + 1
            /\ \A i \in 1 .. Len(body) : body'[i] = body[i]
            /\ body'[Len(body')] = new_piece_pos
            /\ score' = score + 1
            /\ ~died'
            /\ \A i \in 1 .. Len(body') : body'[i] # food_pos']_vars

\* the snake has eaten twice in a row
C13_Witness == outcome = "ate" /\ score = 2 /\ Len(body) = INITIAL_SNAKE_LEN + 2

\* C14: a move_snake whose new head is neither a Body cell nor the food cell
\* turns the Body into the old one without its tail cell and with the new head
\* appended; score, food cell and died = false stay.
C14_MoveShifts ==
    [][(Stepped /\ new_piece_pos # food_pos /\ ~InBody(new_piece_pos, body))
         => /\ Len(body') = Len(body)
            /\ \A i \in 1 .. (Len(body) - 1) : body'[i] = body[i + 1]
            /\ body'[Len(body')] = new_piece_pos
            /\ score' = score /\ food_pos' = food_pos
            /\ ~died /\ ~died']_vars

\* the snake has moved around a corner without eating
C14_Witness == outcome = "moved" /\ steps = 2 /\ score = 0 /\ snake_head.x # body[1].x /\ snake_head.y # body[1].y

\* the piece right behind the head
neck == body[Len(body) - 1]

\* the direction that leads from piece i to piece i + 1 of the Body
piece_direction(i) ==
    CHOOSE d \in {DIRECTION_UP, DIRECTION_DOWN, DIRECTION_LEFT, DIRECTION_RIGHT} :
        move_in_bounded_direction(body[i], d, bound_x, bound_y) = body[i + 1]

\* the direction of the last move (for the initial Body: the initial
\* direction): the one that leads from the neck to the head
last_move_direction == piece_direction(Len(body) - 1)

\* C15: in every state the current direction, which is the one the next
\* move_snake uses, is not the reverse of the direction of the previous move
\* (of the initial direction before the first), and so the new head is never
\* the neck.
C15_NeverReverses ==
    /\ direction # Reverse(last_move_direction)
    /\ new_piece_pos # neck

\* a turn has been applied after a move that itself followed a turn
C15_Witness ==
    /\ steps >= 2 /\ changes = 1
    /\ direction # last_move_direction
    /\ last_move_direction # piece_direction(Len(body) - 2)

\* C16: right after init_snake the Body has INITIAL_SNAKE_LEN cells, the head
\* is the sampled cell, every cell is the toroidal step of the next one
\* (toward the head) against the initial direction, and the cell ahead of the
\* head is free; a first move_snake without a direction change does not kill.
C16_InitialLine ==
    /\ []((steps = 0 /\ changes = 0) =>
            /\ Len(body) = INITIAL_SNAKE_LEN
            /\ snake_head.x \in uniform_u32(bound_x) /\ snake_head.y \in uniform_u32(bound_y)
            /\ \A i \in 1 .. (Len(body) - 1) :
                 body[i] = move_in_bounded_direction(body[i + 1], Reverse(direction),
                                                     bound_x, bound_y)
            /\ ~InBody(new_piece_pos, body))
    /\ [][(steps = 0 /\ changes = 0 /\ Stepped) => ~died']_vars

\* the first move was made straight on
C16_Witness == steps = 1 /\ ~died /\ outcome = "moved" /\ direction = last_move_direction /\ changes = 0

\* C19: the Body has INITIAL_SNAKE_LEN + score cells and is never empty; the
\* score never decreases and grows by exactly 1 in exactly the steps that
\* lengthen the Body.
C19_LengthIsScore ==
    /\ [](Len(body) = INITIAL_SNAKE_LEN + score /\ Len(body) >= 1 /\ score >= 0)
    /\ [][/\ score' \in {score, score + 1}
          /\ (score' = score + 1) <=> (Len(body') = Len(body) + 1)
          /\ Len(body') >= Len(body)]_vars

\* the snake has eaten twice and then moved on
C19_Witness == score = 2 /\ Len(body) = INITIAL_SNAKE_LEN + 2 /\ outcome = "moved"

\* C18: the collision walk of move_snake covers the whole Body, the tail cell
\* included, before any tail removal: a move_snake whose new head is the
\* current tail cell sets died and leaves the Body as it was.
C18_TailCollides ==
    [][(Stepped /\ new_piece_pos = body[1]) => (died' /\ body' = body)]_vars

\* the coiled snake turned up into its own tail, with the food elsewhere
C18_Witness ==
    /\ died /\ outcome = "died"
    /\ new_piece_pos = body[1]
    /\ food_pos # body[1]
    /\ Len(body) = INITIAL_SNAKE_LEN

\* move_snake has been called for a new head on the food and next_food_pos
\* finds every cell it samples in the model taken: the call goes on sampling
SamplingFood ==
    /\ pc = "poll" /\ ShouldStep
    /\ ~InBody(new_piece_pos, body) /\ new_piece_pos = food_pos
    /\ next_food_pos(Append(body, new_piece_pos)) = {}

\* C20: with the pacer running, the snake alive and a positive elapsed time in
\* every iteration, move_snake is called again after finitely many
\* iterations (up to the MaxSteps calls of the model); an evaluation without
\* a step leaves the accumulator as it is and every iteration adds its
\* elapsed time to it, so time short of an interval is carried over.
C20_TicksKeepComing ==
    /\ \A n \in 0 .. (MaxSteps - 1) :
         (steps = n /\ ~died) ~> (steps > n \/ SamplingFood)
    /\ [][/\ (Evaluated /\ ~Stepped) => accumulated_ms' = accumulated_ms
          /\ pc = "time" => accumulated_ms' > accumulated_ms]_vars

\* a step paid for by three elapsed times of 25 ms, 25 ms carried over
C20_Witness == steps >= 1 /\ pc = "time" /\ accumulated_ms = 25 /\ ~paused /\ ~died

\* C11: for every bound b >= 1, every coordinate c in [0, b) and every unit step
\* d in {-1, 0, 1}, the returned coordinate is (c + d) mod b and lies in
\* [0, b) (Right from b - 1 gives 0, Left from 0 gives b - 1).
C11_WrapIsMod ==
    probe.state = "returned" =>
        /\ probe.result = (probe.c + probe.d) % probe.b
        /\ probe.result >= 0
        /\ probe.result < probe.b

\* C12: for every positive bound, the raw samples of [0, MAX] that uniform_u32
\* accepts are a non-empty set that maps onto each value of [0, bound) the
\* same number of times, and a returned value lies in [0, bound).
C12_UniformNoBias ==
    LET accepted == { v \in rand_range : ~rand_rejected(v, probe.bound, RAND_MAX_W) }
        hits(r) == Cardinality({ v \in accepted : v % probe.bound = r })
    IN  /\ accepted # {}
        /\ \A r \in 0 .. (probe.bound - 1) : hits(r) = hits(0)
        /\ probe.state = "returned" => probe.result >= 0 /\ probe.result < probe.bound

\* the cells of the snake's grid no piece of its Body is on
FreeCells ==
    { c \in [x : 0 .. (probe.bound_x - 1), y : 0 .. (probe.bound_y - 1)] :
        \A i \in 1 .. Len(probe.body) : probe.body[i] # c }

\* C17: under fair sampling next_food_pos returns if and only if some grid cell
\* is outside the Body, and the cell it returns is outside the Body; called by
\* the step that filled the last free cell it never returns, so neither does
\* that step.
C17_FoodReturnsIffFree ==
    /\ [](probe.state = "returned" => probe.result \in FreeCells)
    /\ (FreeCells # {}) ~> (probe.state = "returned")
    /\ [](Len(probe.body) = probe.bound_x * probe.bound_y =>
             FreeCells = {} /\ probe.state = "loop")

\* the call returned the only free cell of the grid
C17_Witness ==
    /\ probe.state = "returned"
    /\ Len(probe.body) = probe.bound_x * probe.bound_y - 1
    /\ FreeCells = {probe.result}
====
